---- MODULE Spec2Model ----
(***************************************************************************)
(* The `send` command of vegh (src/python/vegh/cli.py): the precondition   *)
(* checks, the choice between direct and chunked upload, the single-request*)
(* direct upload, and the chunked upload on a ThreadPoolExecutor whose      *)
(* results the main thread collects with as_completed.                      *)
(*                                                                         *)
(* One run of `send` is one behaviour.  The main thread's position is pc;  *)
(* the pool's tasks are the elements of futures / fstate.  What the run     *)
(* shows to its caller is console (the outcome lines printed) and exit_code.*)
(***************************************************************************)
EXTENDS Integers, Sequences, FiniteSets, TLC

\* ---------------------------------------------------------------- constants
CHUNK_THRESHOLD == 100 * 1024 * 1024
CHUNK_SIZE == 10 * 1024 * 1024
CONCURRENT_WORKERS == 4

\* ------------------------------------------------------------------- bounds
\* The largest number of chunks of a job of the job specification.
MaxChunks == 4
\* The file and chunk sizes of the splitting specification.
MaxSplitSize == 9
MaxSplitChunk == 4

\* Response statuses the server may answer with, around the bounds of [200,300).
Statuses == {199, 200, 299, 300, 500}

\* Sizes within one chunk: a whole number of chunks, one byte more, half a
\* chunk more (25 MiB is 2 chunks and a half).
Offsets == {0, 1, CHUNK_SIZE \div 2}

\* File sizes of the job specification: at most MaxChunks chunks.
FileSizes == {k * CHUNK_SIZE + d : k \in 0..(MaxChunks - 1), d \in Offsets}

\* File sizes of the planning specification: around CHUNK_THRESHOLD.
PlanSizes ==
    {0, 1, 1024 * 1024, CHUNK_SIZE, CHUNK_THRESHOLD - 1, CHUNK_THRESHOLD,
     CHUNK_THRESHOLD + 1, 2 * CHUNK_THRESHOLD}

\* -------------------------------------------------------------------- state
VARIABLES
    file,          \* the path given: "missing", "unreadable" (exists, open fails) or "ok"
    target_url,    \* url or cfg.get('url'): "" when neither is set
    auth_token,    \* auth or cfg.get('auth'): "" when neither is set
    force_chunk,   \* --force-chunk
    file_size,     \* file.stat().st_size
    chunk_size,    \* the CHUNK_SIZE _send_chunked splits by
    pc,            \* position of the main thread
    mode,          \* "none" until send chooses "Direct" or "Chunked"
    base_headers,  \* the dict send builds and hands to the transfer
    total_chunks,  \* _send_chunked's total_chunks
    futures,       \* the tasks submitted to the executor, in submission order
    fstate,        \* fstate[i+1]: state and failure reason of the future of chunk i
    yielded,       \* indices as_completed has handed to the main thread
    completed,     \* the progress task's completed count
    network,       \* every upload request issued, in order of issue
    response,      \* _send_direct's response.status_code, -1 while there is none
    console,       \* the outcome lines printed, in order
    exit_code      \* -1 while running, then the process exit code

vars == <<file, target_url, auth_token, force_chunk, file_size, chunk_size, pc, mode,
          base_headers, total_chunks, futures, fstate, yielded, completed, network,
          response, console, exit_code>>

job == <<file, target_url, auth_token, force_chunk, file_size, chunk_size>>

\* the reply to the direct upload
reply == <<response>>

NoReason == <<"", 0>>
IOError == <<"IOError", 0>>
NetworkError == <<"NetworkError", 0>>
StatusReason(s) == <<"Status", s>>

Msg(kind, index, reason) == [kind |-> kind, index |-> index, reason |-> reason]

filename == "file.snap"

\* ------------------------------------------------------------ pure functions
\* A faulty IsSuccess: status 300 counts as success.
IsSuccessInclusive(status) == 200 <= status /\ status <= 300

\* 200 <= status < 300, and status in range(200, 300)
IsSuccess(status) == 200 <= status /\ status < 300

\* A faulty Plan: a file of exactly CHUNK_THRESHOLD bytes goes direct.
PlanInclusive(size, force) ==
    IF size <= CHUNK_THRESHOLD /\ ~force THEN "Direct" ELSE "Chunked"

\* if file_size < CHUNK_THRESHOLD and not force_chunk: direct, else: chunked
Plan(size, force) ==
    IF size < CHUNK_THRESHOLD /\ ~force THEN "Direct" ELSE "Chunked"

\* A faulty TotalChunks: the quotient rounded down, plus one.
TotalChunksPlusOne(size, cs) == (size \div cs) + 1

\* math.ceil(file_size / cs) for 0 <= file_size, 1 <= cs (the float quotient is
\* exact enough for ceil below 2^53 bytes)
TotalChunks(size, cs) ==
    IF size % cs = 0 THEN size \div cs ELSE (size \div cs) + 1

Min(a, b) == IF a < b THEN a ELSE b

\* A faulty ChunkTask: every chunk is given the full chunk size.
ChunkTaskFull(i, size, cs) == [index |-> i, start |-> i * cs, size |-> cs]

\* start = i * CHUNK_SIZE; current_size = min(CHUNK_SIZE, file_size - start)
ChunkTask(i, size, cs) ==
    [index |-> i, start |-> i * cs, size |-> Min(cs, size - i * cs)]

\* base_headers = {}; if auth_token: base_headers["Authorization"] = ...
BaseHeaders(token) ==
    IF token # "" THEN {<<"Authorization", <<"Bearer", token>>>>} ELSE {}

\* str(n) for n >= 0: the decimal digits, most significant first
Digit(d) == <<"0", "1", "2", "3", "4", "5", "6", "7", "8", "9">>[d + 1]

RECURSIVE Str(_)
Str(n) == IF n < 10 THEN <<Digit(n)>> ELSE Str(n \div 10) \o <<Digit(n % 10)>>

\* chunk_headers = headers.copy(); chunk_headers.update({...})
ChunkHeaders(headers, index, total) ==
    {h \in headers : h[1] \notin {"X-File-Name", "X-Chunk-Index", "X-Total-Chunks"}}
        \cup {<<"X-File-Name", filename>>, <<"X-Chunk-Index", Str(index)>>,
              <<"X-Total-Chunks", Str(total)>>}

\* --------------------------------------------------------------------- Init
InitRest ==
    /\ target_url \in {"", "http://server"}
    /\ auth_token \in {"", "token"}
    /\ force_chunk \in BOOLEAN
    /\ pc = "send"
    /\ mode = "none"
    /\ base_headers = {}
    /\ total_chunks = 0
    /\ futures = <<>>
    /\ fstate = <<>>
    /\ yielded = {}
    /\ completed = 0
    /\ network = <<>>
    /\ response = -1
    /\ console = <<>>
    /\ exit_code = -1

Init ==
    /\ file \in {"missing", "unreadable", "ok"}
    /\ file_size \in FileSizes
    /\ chunk_size = CHUNK_SIZE
    /\ InitRest

\* ------------------------------------------------------------------- send()
Exit(code) ==
    /\ pc' = "exited"
    /\ exit_code' = code

\* if not file.exists(): print, raise typer.Exit(1)
SendFileMissing ==
    /\ pc = "send"
    /\ file = "missing"
    /\ console' = Append(console, Msg("FileNotFound", -1, NoReason))
    /\ Exit(1)
    /\ UNCHANGED <<job, reply, mode, base_headers, total_chunks, futures, fstate, yielded,
                   completed, network>>

\* if not target_url: print, raise typer.Exit(1)
SendNoUrl ==
    /\ pc = "send"
    /\ file # "missing"
    /\ target_url = ""
    /\ console' = Append(console, Msg("NoUrl", -1, NoReason))
    /\ Exit(1)
    /\ UNCHANGED <<job, reply, mode, base_headers, total_chunks, futures, fstate, yielded,
                   completed, network>>

\* base_headers is built, the mode chosen and the transfer entered
SendPlan ==
    /\ pc = "send"
    /\ file # "missing"
    /\ target_url # ""
    /\ base_headers' = BaseHeaders(auth_token)
    /\ mode' = Plan(file_size, force_chunk)
    /\ pc' = IF mode' = "Direct" THEN "direct" ELSE "chunked"
    /\ UNCHANGED <<job, reply, total_chunks, futures, fstate, yielded, completed, network,
                   console, exit_code>>

Send == SendFileMissing \/ SendNoUrl \/ SendPlan

\* ------------------------------------------------------------- _send_direct
DirectRequest(headers) ==
    [kind |-> "direct", index |-> -1, start |-> 0, size |-> file_size, headers |-> headers]

\* open(file, 'rb') raises: the except branch prints "Network Error", and send returns
DirectOpenFails ==
    /\ pc = "direct"
    /\ console' = Append(console, Msg("NetworkError", -1, IOError))
    /\ Exit(0)
    /\ UNCHANGED <<job, reply, mode, base_headers, total_chunks, futures, fstate, yielded,
                   completed, network>>

\* the file opens and requests.post(url, data=f, headers=headers) is issued
DirectPost ==
    /\ pc = "direct"
    /\ file = "ok"
    /\ network' = Append(network, DirectRequest(base_headers))
    /\ pc' = "direct_wait"
    /\ UNCHANGED <<job, reply, mode, base_headers, total_chunks, futures, fstate, yielded,
                   completed, console, exit_code>>

\* the outcome line of a response with this status
DirectOutcome(status) ==
    IF IsSuccess(status)
    THEN Msg("UploadComplete", -1, NoReason)
    ELSE Msg("UploadFailed", -1, StatusReason(status))

\* the response arrives; send returns normally whatever the status
DirectStatus(status) ==
    /\ pc = "direct_wait"
    /\ response' = status
    /\ console' = Append(console, DirectOutcome(status))
    /\ Exit(0)
    /\ UNCHANGED <<job, mode, base_headers, total_chunks, futures, fstate, yielded,
                   completed, network>>

\* requests.post raises: the except branch prints "Network Error", and send returns
DirectException ==
    /\ pc = "direct_wait"
    /\ console' = Append(console, Msg("NetworkError", -1, NetworkError))
    /\ Exit(0)
    /\ UNCHANGED <<job, reply, mode, base_headers, total_chunks, futures, fstate, yielded,
                   completed, network>>

SendDirect ==
    \/ DirectOpenFails
    \/ DirectPost
    \/ \E status \in Statuses : DirectStatus(status)
    \/ DirectException

\* ------------------------------------------------------------ _send_chunked
Indices == 0..(Len(futures) - 1)
StateOf(i) == fstate[i + 1].st
ReasonOf(i) == fstate[i + 1].reason
Finished(i) == StateOf(i) \in {"ok", "failed"}
InFlight == {i \in Indices : StateOf(i) = "inflight"}
Queued == {i \in Indices : StateOf(i) = "queued"}

\* total_chunks = math.ceil(file_size / CHUNK_SIZE); the executor is created
ChunkedEnter ==
    /\ pc = "chunked"
    /\ total_chunks' = TotalChunks(file_size, chunk_size)
    /\ pc' = "pool"
    /\ UNCHANGED <<job, reply, mode, base_headers, futures, fstate, yielded, completed,
                   network, console, exit_code>>

\* one iteration of `for i in range(total_chunks)`: executor.submit(_upload_chunk, ...)
SubmitChunk ==
    /\ pc = "pool"
    /\ Len(futures) < total_chunks
    /\ futures' = Append(futures, ChunkTask(Len(futures), file_size, chunk_size))
    /\ fstate' = Append(fstate, [st |-> "queued", reason |-> NoReason])
    /\ UNCHANGED <<job, reply, pc, mode, base_headers, total_chunks, yielded, completed,
                   network, console, exit_code>>

\* ------------------------------------------------------------ _upload_chunk
\* A pool thread takes the next work item: the queue is FIFO and at most
\* CONCURRENT_WORKERS threads exist.
CanStart(i) ==
    /\ i \in Queued
    /\ \A j \in Queued : i <= j
    /\ Cardinality(InFlight) < CONCURRENT_WORKERS

ChunkRequest(i, headers) ==
    [kind |-> "chunk", index |-> futures[i + 1].index, start |-> futures[i + 1].start,
     size |-> futures[i + 1].size,
     headers |-> ChunkHeaders(headers, futures[i + 1].index, total_chunks)]

\* open / seek / read raises: the task ends with "Chunk i error: ..."
ChunkReadFails(i) ==
    /\ CanStart(i)
    /\ fstate' = [fstate EXCEPT ![i + 1] = [st |-> "failed", reason |-> IOError]]
    /\ UNCHANGED <<job, reply, pc, mode, base_headers, total_chunks, futures, yielded,
                   completed, network, console, exit_code>>

\* A faulty ChunkPost: the worker updates the shared dict instead of a copy.
ChunkPostShared(i) ==
    /\ CanStart(i)
    /\ file = "ok"
    /\ base_headers' = ChunkHeaders(base_headers, futures[i + 1].index, total_chunks)
    /\ network' = Append(network, ChunkRequest(i, base_headers))
    /\ fstate' = [fstate EXCEPT ![i + 1].st = "inflight"]
    /\ UNCHANGED <<job, reply, pc, mode, total_chunks, futures, yielded,
                   completed, console, exit_code>>

\* the bytes are read and requests.post(url, data=data, headers=chunk_headers) is issued
ChunkPost(i) ==
    /\ CanStart(i)
    /\ file = "ok"
    /\ network' = Append(network, ChunkRequest(i, base_headers))
    /\ fstate' = [fstate EXCEPT ![i + 1].st = "inflight"]
    /\ UNCHANGED <<job, reply, pc, mode, base_headers, total_chunks, futures, yielded,
                   completed, console, exit_code>>

\* A faulty ChunkResult: a chunk whose upload is refused is queued again.
ChunkResultRetry(status) ==
    IF 200 <= status /\ status < 300
    THEN [st |-> "ok", reason |-> NoReason]
    ELSE [st |-> "queued", reason |-> NoReason]

\* what the task resolves to on a response with this status
ChunkResult(status) ==
    IF IsSuccess(status)
    THEN [st |-> "ok", reason |-> NoReason]
    ELSE [st |-> "failed", reason |-> StatusReason(status)]

\* the response arrives: return True, or raise "Chunk i error: Status n"
ChunkStatus(i, status) ==
    /\ i \in InFlight
    /\ fstate' = [fstate EXCEPT ![i + 1] = ChunkResult(status)]
    /\ UNCHANGED <<job, reply, pc, mode, base_headers, total_chunks, futures, yielded,
                   completed, network, console, exit_code>>

\* requests.post raises
ChunkException(i) ==
    /\ i \in InFlight
    /\ fstate' = [fstate EXCEPT ![i + 1] = [st |-> "failed", reason |-> NetworkError]]
    /\ UNCHANGED <<job, reply, pc, mode, base_headers, total_chunks, futures, yielded,
                   completed, network, console, exit_code>>

UploadChunk ==
    \E i \in Indices :
        \/ ChunkReadFails(i)
        \/ ChunkPost(i)
        \/ \E status \in Statuses : ChunkStatus(i, status)
        \/ ChunkException(i)

\* ------------------------------------- _send_chunked: for future in as_completed
\* as_completed hands over a finished future it has not handed over before
Yields(i) ==
    /\ pc = "pool"
    /\ Len(futures) = total_chunks
    /\ i \in Indices \ yielded
    /\ Finished(i)

\* A faulty Advance: the count advances by two.
AdvanceTwice(count) == count + 2

\* progress.advance(task_id, 1)
Advance(count) == count + 1

\* future.result() returns: the progress task advances
ObserveSuccess(i) ==
    /\ Yields(i)
    /\ StateOf(i) = "ok"
    /\ yielded' = yielded \cup {i}
    /\ completed' = Advance(completed)
    /\ UNCHANGED <<job, reply, pc, mode, base_headers, total_chunks, futures, fstate,
                   network, console, exit_code>>

\* A faulty AbortMsg: the abort line counts chunks from 1.
AbortMsgOneBased(i) == Msg("UploadAborted", futures[i + 1].index + 1, ReasonOf(i))

\* "Upload Aborted: Chunk {index} error: {e}"
AbortMsg(i) == Msg("UploadAborted", futures[i + 1].index, ReasonOf(i))

\* A faulty ObserveFailure: the except branch prints and the loop goes on (no raise).
ObserveFailureNoExit(i) ==
    /\ Yields(i)
    /\ StateOf(i) = "failed"
    /\ yielded' = yielded \cup {i}
    /\ console' = Append(console, AbortMsg(i))
    /\ UNCHANGED <<job, reply, pc, mode, base_headers, total_chunks, futures, fstate,
                   completed, network, exit_code>>

\* A faulty ObserveFailure: a failed chunk makes the job fall back to one direct upload.
ObserveFailureFallback(i) ==
    /\ Yields(i)
    /\ StateOf(i) = "failed"
    /\ yielded' = yielded \cup {i}
    /\ mode' = "Direct"
    /\ pc' = "direct"
    /\ UNCHANGED <<job, reply, base_headers, total_chunks, futures, fstate, completed,
                   network, console, exit_code>>

\* future.result() raises: print, raise typer.Exit(1).  The exception leaves the
\* `with ThreadPoolExecutor` block, whose exit is shutdown(wait=True).
ObserveFailure(i) ==
    /\ Yields(i)
    /\ StateOf(i) = "failed"
    /\ yielded' = yielded \cup {i}
    /\ console' = Append(console, AbortMsg(i))
    /\ pc' = "shutdown"
    /\ UNCHANGED <<job, reply, mode, base_headers, total_chunks, futures, fstate, completed,
                   network, exit_code>>

\* shutdown(wait=True) joins the pool threads, which first run every queued task
ShutdownReady == \A i \in Indices : Finished(i)

\* the executor's exit returns and typer.Exit(1) reaches the caller
ExecutorShutdown ==
    /\ pc = "shutdown"
    /\ ShutdownReady
    /\ Exit(1)
    /\ UNCHANGED <<job, reply, mode, base_headers, total_chunks, futures, fstate, yielded,
                   completed, network, console>>

\* the loop ends with every future handed over: both `with` blocks are left and
\* "All chunks sent successfully!" is printed; send returns
AllCollected ==
    /\ pc = "pool"
    /\ Len(futures) = total_chunks
    /\ yielded = Indices
    /\ console' = Append(console, Msg("AllChunksSent", -1, NoReason))
    /\ Exit(0)
    /\ UNCHANGED <<job, reply, mode, base_headers, total_chunks, futures, fstate, yielded,
                   completed, network>>

SendChunked ==
    \/ ChunkedEnter
    \/ SubmitChunk
    \/ \E i \in Indices : ObserveSuccess(i) \/ ObserveFailure(i)
    \/ ExecutorShutdown
    \/ AllCollected

\* ---------------------------------------------------------- specifications
Next == Send \/ SendDirect \/ SendChunked \/ UploadChunk

Spec == Init /\ [][Next]_vars

\* The planning specification: send up to the choice of mode, on file sizes
\* around CHUNK_THRESHOLD.
InitPlan ==
    /\ file \in {"missing", "unreadable", "ok"}
    /\ file_size \in PlanSizes
    /\ chunk_size = CHUNK_SIZE
    /\ InitRest

NextPlan == Send

SpecPlan == InitPlan /\ [][NextPlan]_vars

\* The splitting specification: _send_chunked's computation of the chunk tasks,
\* on every file size up to MaxSplitSize and every chunk size up to MaxSplitChunk.
InitSplit ==
    /\ file = "ok"
    /\ target_url = "http://server"
    /\ auth_token \in {"", "token"}
    /\ force_chunk = TRUE
    /\ file_size \in 0..MaxSplitSize
    /\ chunk_size \in 1..MaxSplitChunk
    /\ pc = "chunked"
    /\ mode = "Chunked"
    /\ base_headers = BaseHeaders(auth_token)
    /\ total_chunks = 0
    /\ futures = <<>>
    /\ fstate = <<>>
    /\ yielded = {}
    /\ completed = 0
    /\ network = <<>>
    /\ response = -1
    /\ console = <<>>
    /\ exit_code = -1

NextSplit == ChunkedEnter \/ SubmitChunk

SpecSplit == InitSplit /\ [][NextSplit]_vars

\* The fair specification: jobs of up to 3 chunks, where the main thread and the
\* pool threads keep running and every request issued is answered or fails.
FairSizes == {0, 1, CHUNK_SIZE + 1, 2 * CHUNK_SIZE + CHUNK_SIZE \div 2}

InitFair ==
    /\ file \in {"missing", "unreadable", "ok"}
    /\ file_size \in FairSizes
    /\ chunk_size = CHUNK_SIZE
    /\ InitRest

MainThread == Send \/ SendDirect \/ SendChunked

SpecFair == InitFair /\ [][Next]_vars /\ WF_vars(MainThread) /\ WF_vars(UploadChunk)

\* ------------------------------------------------------------------- claims
Failed == {i \in Indices : StateOf(i) = "failed"}
Printed(kind) == \E k \in 1..Len(console) : console[k].kind = kind
ChunkedRun == mode = "Chunked" /\ pc \in {"pool", "shutdown", "exited"}
MiB == 1024 * 1024

\* C1: in chunked mode, whenever a chunk upload has failed the completed count
\* is below total_chunks, and a count that reaches total_chunks means every
\* chunk succeeded (so no failure can follow); a run in which a chunk failed
\* ends with exactly one outcome line, an abort naming the index and the reason
\* of the one failed future handed to the main thread, the first failure observed.
C1_AbortNamesFirstFailure ==
    /\ (ChunkedRun /\ Failed # {}) => completed < total_chunks
    /\ (ChunkedRun /\ completed = total_chunks) =>
            /\ Len(futures) = total_chunks
            /\ \A i \in Indices : StateOf(i) = "ok"
    /\ (pc = "exited" /\ mode = "Chunked" /\ Failed # {}) =>
            /\ Len(console) = 1
            /\ console[1].kind = "UploadAborted"
            /\ console[1].index \in Failed
            /\ console[1].reason = ReasonOf(console[1].index)
            /\ console[1].reason # NoReason
            /\ yielded \cap Failed = {console[1].index}

\* C1 witness: 25 MiB in 3 chunks, only the middle chunk answered 500, after
\* the two other chunks were counted.
C1_Witness ==
    /\ pc = "exited"
    /\ file_size = 25 * MiB
    /\ total_chunks = 3
    /\ Failed = {1}
    /\ completed = 2
    /\ console = <<Msg("UploadAborted", 1, <<"Status", 500>>)>>

\* C2: "All chunks sent successfully" is printed only when each of the
\* total_chunks chunks was submitted and its upload succeeded, and no run prints
\* both the success line and an abort line.
C2_SuccessNeedsAllChunks ==
    /\ Printed("AllChunksSent") =>
            /\ Len(futures) = total_chunks
            /\ \A i \in 0..(total_chunks - 1) : StateOf(i) = "ok" /\ i \in yielded
            /\ completed = total_chunks
    /\ ~(Printed("AllChunksSent") /\ Printed("UploadAborted"))

\* C2 witness: a 3-chunk job that printed the success line.
C2_Witness ==
    /\ pc = "exited"
    /\ total_chunks = 3
    /\ console = <<Msg("AllChunksSent", -1, NoReason)>>
    /\ Len(network) = 3

\* C3: once the first chunk failure is observed, control can return to the
\* caller whether or not queued or in-flight chunk tasks remain.
C3_ReturnsWithoutWaiting ==
    pc = "shutdown" => ENABLED ExecutorShutdown

\* The tasks whose byte range [start, start + size) holds byte b.
Covering(b) ==
    {k \in 1..Len(futures) : futures[k].start <= b /\ b < futures[k].start + futures[k].size}

\* C4: for file_size >= 1 and chunk_size >= 1, total_chunks is the ceiling of
\* file_size / chunk_size; the i-th task submitted has index i, offset
\* i * chunk_size and a length > 0 that is the lesser of chunk_size and
\* file_size - offset; and once all are submitted they number total_chunks, every
\* byte of [0, file_size) lies in exactly one task's range, none lies beyond, and
\* the last length is file_size - (total_chunks - 1) * chunk_size.
C4_ChunksCoverFile ==
    (pc = "pool" /\ file_size >= 1) =>
        /\ (total_chunks - 1) * chunk_size < file_size
        /\ file_size <= total_chunks * chunk_size
        /\ Len(futures) <= total_chunks
        /\ \A k \in 1..Len(futures) :
              /\ futures[k].index = k - 1
              /\ futures[k].start = (k - 1) * chunk_size
              /\ futures[k].size > 0
              /\ futures[k].size <= chunk_size
              /\ futures[k].size <= file_size - futures[k].start
              /\ \/ futures[k].size = chunk_size
                 \/ futures[k].size = file_size - futures[k].start
        /\ Len(futures) = total_chunks =>
              /\ \A b \in 0..(file_size - 1) : Cardinality(Covering(b)) = 1
              /\ \A b \in file_size..(file_size + chunk_size) : Covering(b) = {}
              /\ futures[total_chunks].size = file_size - (total_chunks - 1) * chunk_size

\* C4 witness: all tasks of a file of 3 or more chunks with a shorter last chunk
\* are submitted.
C4_Witness ==
    /\ pc = "pool"
    /\ total_chunks >= 3
    /\ Len(futures) = total_chunks
    /\ file_size % chunk_size # 0
    /\ futures[total_chunks].size < chunk_size

\* C5: the mode chosen is Direct exactly when file_size < 104,857,600 and
\* force_chunk is false; with force_chunk it is Chunked, and a file of exactly
\* 104,857,600 bytes is sent Chunked.
C5_PlanRule ==
    (mode # "none") =>
        /\ mode \in {"Direct", "Chunked"}
        /\ (mode = "Direct") <=> (file_size < 104857600 /\ ~force_chunk)
        /\ force_chunk => mode = "Chunked"
        /\ (file_size = 104857600) => mode = "Chunked"
        /\ pc \in {"direct", "direct_wait"} => mode = "Direct"
        /\ pc \in {"chunked", "pool", "shutdown"} => mode = "Chunked"

\* C5 witness: a file of exactly the threshold, not forced, is planned Chunked.
C5_Witness ==
    /\ file_size = 104857600
    /\ ~force_chunk
    /\ mode = "Chunked"
    /\ pc = "chunked"

\* The successes handed to the main thread.
YieldedOk == {i \in yielded : StateOf(i) = "ok"}

\* C6: in every step the completed count stays or grows, and it grows by the
\* number of successful futures handed over in that step, which is at most
\* one; it always equals the number of successes handed over so far and never
\* exceeds total_chunks.
C6_CounterMonotone ==
    /\ [](completed = Cardinality(YieldedOk) /\ completed <= total_chunks)
    /\ [][/\ completed' >= completed
          /\ completed' - completed = Cardinality(YieldedOk' \ YieldedOk)
          /\ completed' - completed <= 1]_vars

\* C6 witness: two successes were counted, then a failure was handed over while
\* another chunk is still in flight.
C6_Witness ==
    /\ pc = "shutdown"
    /\ completed = 2
    /\ total_chunks = 4
    /\ InFlight # {}

\* The requests issued for chunk index i, and the tasks submitted for it.
RequestsFor(i) == {k \in 1..Len(network) : network[k].kind = "chunk" /\ network[k].index = i}
TasksFor(i) == {k \in 1..Len(futures) : futures[k].index = i}

\* C7: each chunk index below total_chunks is submitted at most once, and
\* exactly once when the submission loop has ended; no other index is
\* submitted; and no index is ever the subject of more than one upload request,
\* also after another chunk has failed.
C7_NoRetry ==
    /\ \A k \in 1..Len(futures) : futures[k].index \in 0..(total_chunks - 1)
    /\ \A i \in 0..(total_chunks - 1) :
          /\ Cardinality(TasksFor(i)) <= 1
          /\ (ChunkedRun /\ (yielded # {} \/ pc # "pool")) => Cardinality(TasksFor(i)) = 1
          /\ Cardinality(RequestsFor(i)) <= 1
    /\ Len(network) <= (IF mode = "Chunked" THEN total_chunks ELSE 1)

\* C7 witness: chunk 0 failed and was reported, and the run ended with each of
\* the 3 chunks requested once.
C7_Witness ==
    /\ pc = "exited"
    /\ total_chunks = 3
    /\ console = <<Msg("UploadAborted", 0, <<"Status", 500>>)>>
    /\ \A i \in 0..2 : Cardinality(RequestsFor(i)) = 1

\* The outcome lines that report a transfer that succeeded.
Succeeded == Printed("UploadComplete") \/ Printed("AllChunksSent")

\* C8: a run that ends without a success line ends with a nonzero exit code,
\* and an exit code of zero is produced only by a run that printed a success line.
C8_FailureExitsNonzero ==
    (pc = "exited") => ((exit_code = 0) <=> Succeeded)

\* C9 as stated: a direct run has issued exactly one request when it ends, and
\* prints the success line exactly when the response status is in [200, 300).
C9_ExactlyOneRequest ==
    (pc = "exited" /\ mode = "Direct") =>
        /\ Len(network) = 1
        /\ Printed("UploadComplete") <=> (200 <= response /\ response < 300)

\* C9 amended: a direct run issues at most one request, none only when opening
\* the file failed (which is then the failure reported); it prints exactly one
\* outcome line, the success line exactly when a request was issued and its
\* response status is in [200, 300), and a failure line for any other status,
\* a network exception or a file that cannot be opened.
C9_DirectOutcome ==
    /\ (mode = "Direct") =>
          /\ Len(network) <= 1
          /\ \A k \in 1..Len(network) : network[k].kind = "direct"
          /\ (pc = "direct_wait") <=> (Len(network) = 1 /\ console = <<>>)
          /\ file = "unreadable" => Len(network) = 0
    /\ (pc = "exited" /\ mode = "Direct") =>
          /\ Len(console) = 1
          /\ (console[1].kind = "UploadComplete") <=>
                (Len(network) = 1 /\ 200 <= response /\ response < 300)
          /\ (console[1].kind = "UploadFailed") <=>
                (Len(network) = 1 /\ response # -1 /\ ~(200 <= response /\ response < 300))
          /\ (console[1].kind = "UploadFailed") => console[1].reason = <<"Status", response>>
          /\ (console[1].kind = "NetworkError") <=> (response = -1)
          /\ (Len(network) = 0) <=> (console[1] = Msg("NetworkError", -1, IOError))

\* C9 witness: a direct run answered 299 printed the success line after one request.
C9_Witness ==
    /\ pc = "exited"
    /\ mode = "Direct"
    /\ response = 299
    /\ Len(network) = 1
    /\ console = <<Msg("UploadComplete", -1, NoReason)>>

\* C10: a run whose file is missing or unreadable, or that has no target URL,
\* never issues an upload request, and ends with a failure line and no success line.
C10_PreconditionFailure ==
    (file \in {"missing", "unreadable"} \/ target_url = "") =>
        /\ network = <<>>
        /\ (pc = "exited") => (console # <<>> /\ ~Succeeded)

\* The values a header set gives to a header name.
HeaderValues(headers, name) == {h[2] : h \in {g \in headers : g[1] = name}}

\* The number a sequence of decimal digits denotes.
DigitValue(c) ==
    CASE c = "0" -> 0 [] c = "1" -> 1 [] c = "2" -> 2 [] c = "3" -> 3 [] c = "4" -> 4
      [] c = "5" -> 5 [] c = "6" -> 6 [] c = "7" -> 7 [] c = "8" -> 8 [] c = "9" -> 9

RECURSIVE ParseDec(_)
ParseDec(digits) ==
    IF Len(digits) = 0 THEN 0
    ELSE 10 * ParseDec(SubSeq(digits, 1, Len(digits) - 1)) + DigitValue(digits[Len(digits)])

ChunkRequests == {k \in 1..Len(network) : network[k].kind = "chunk"}

\* A header set without its X-Chunk-Index.
ButChunkIndex(headers) == {h \in headers : h[1] # "X-Chunk-Index"}

\* C11: every chunk request carries exactly one X-File-Name (the file's name),
\* one X-Chunk-Index that reads as the index of the task whose bytes it carries,
\* one X-Total-Chunks that reads as total_chunks, the Authorization bearer
\* header exactly when a token is configured, and nothing else; any two chunk
\* requests of the job agree on every header but X-Chunk-Index; and once send
\* has built base_headers no step changes it.
C11_ChunkHeaders ==
    /\ [](\A k \in ChunkRequests :
            LET h == network[k].headers IN
              /\ {g[1] : g \in h} \subseteq
                    {"X-File-Name", "X-Chunk-Index", "X-Total-Chunks", "Authorization"}
              /\ Cardinality(h) = (IF auth_token # "" THEN 4 ELSE 3)
              /\ HeaderValues(h, "X-File-Name") = {filename}
              /\ \E v \in HeaderValues(h, "X-Chunk-Index") :
                    /\ ParseDec(v) * chunk_size = network[k].start
                    /\ ParseDec(v) = network[k].index
                    /\ ParseDec(v) \in 0..(total_chunks - 1)
              /\ \E v \in HeaderValues(h, "X-Total-Chunks") : ParseDec(v) = total_chunks
              /\ (auth_token # "") =>
                    HeaderValues(h, "Authorization") = {<<"Bearer", auth_token>>}
              /\ (auth_token = "") => HeaderValues(h, "Authorization") = {}
              /\ \A j \in ChunkRequests :
                    ButChunkIndex(network[j].headers) = ButChunkIndex(h))
    /\ [][pc # "send" => base_headers' = base_headers]_vars

\* C11 witness: with a token configured, the requests of chunks 0, 1 and 2 are
\* in flight together.
C11_Witness ==
    /\ auth_token = "token"
    /\ {0, 1, 2} \subseteq InFlight
    /\ Len(network) >= 3

\* A run has a transfer job when send's precondition checks pass.
HasJob == file # "missing" /\ target_url # ""

\* The state of the transfer job, read from the main thread's position and the
\* outcome line printed.
JobState ==
    IF console # <<>> THEN (IF Succeeded THEN "Succeeded" ELSE "Aborted")
    ELSE IF pc = "send" THEN "Planned"
    ELSE IF pc \in {"direct", "direct_wait"} THEN "DirectInFlight"
    ELSE IF pc \in {"chunked", "pool"} THEN "ChunkedInFlight"
    ELSE "Unknown"

JobTransitions ==
    {<<"Planned", "DirectInFlight">>, <<"Planned", "ChunkedInFlight">>,
     <<"DirectInFlight", "Succeeded">>, <<"DirectInFlight", "Aborted">>,
     <<"ChunkedInFlight", "Succeeded">>, <<"ChunkedInFlight", "Aborted">>}

Terminal == JobState \in {"Succeeded", "Aborted"}

\* C12: a job (a run whose precondition checks pass) changes state only along
\* Planned -> {DirectInFlight | ChunkedInFlight} -> {Succeeded | Aborted}; no
\* request is issued before the mode is chosen, every request is of the mode's
\* kind, and a chosen mode never changes; once an outcome line is printed no
\* other follows; and, with the threads running and every request answered or
\* failing, the run ends, with exactly one outcome line, and stays ended.
C12_JobStateMachine ==
    /\ [](HasJob =>
            /\ mode = "none" <=> JobState = "Planned"
            /\ mode = "none" => network = <<>>
            /\ JobState = "DirectInFlight" => mode = "Direct"
            /\ JobState = "ChunkedInFlight" => mode = "Chunked"
            /\ \A k \in 1..Len(network) :
                  network[k].kind = (IF mode = "Direct" THEN "direct" ELSE "chunk"))
    /\ [][HasJob =>
            /\ JobState' = JobState \/ <<JobState, JobState'>> \in JobTransitions
            /\ mode # "none" => mode' = mode
            /\ Terminal => console' = console
            /\ pc = "exited" => pc' = "exited"]_vars
    /\ <>[](pc = "exited" /\ Terminal /\ Len(console) = 1)

\* C12 witness: a 3-chunk job ended Aborted after a chunk failed following a success.
C12_Witness ==
    /\ HasJob
    /\ pc = "exited"
    /\ mode = "Chunked"
    /\ total_chunks = 3
    /\ JobState = "Aborted"
    /\ completed = 1

\* C13: a job of file_size 0 sent chunked (which takes force_chunk) has
\* total_chunks 0, submits no task, issues no request, never aborts, can print
\* the success line as soon as the pool is entered, and ends with the success
\* line as its only outcome, exit code 0 and the completed count at 0 = total_chunks.
C13_EmptyFileChunked ==
    (mode = "Chunked" /\ file_size = 0) =>
        /\ force_chunk
        /\ futures = <<>>
        /\ network = <<>>
        /\ completed = 0
        /\ pc # "shutdown"
        /\ pc = "pool" => (total_chunks = 0 /\ ENABLED AllCollected)
        /\ pc = "exited" =>
              /\ total_chunks = 0
              /\ completed = total_chunks
              /\ console = <<Msg("AllChunksSent", -1, NoReason)>>
              /\ exit_code = 0

\* C13 witness: a forced chunked run of an empty file ended with the success line.
C13_Witness ==
    /\ pc = "exited"
    /\ mode = "Chunked"
    /\ file_size = 0
    /\ force_chunk
    /\ network = <<>>
    /\ console = <<Msg("AllChunksSent", -1, NoReason)>>

====
